---------------------------- MODULE Spec2Model ----------------------------
(***************************************************************************)
(* wiki-battle: src/js/app.js.  The page handlers (onSelectLanguage,       *)
(* onDeselectLanguage, onNewCount, onChangeWinner) and the battle.js       *)
(* library they drive (Contender, Battle), as one state machine.           *)
(*                                                                         *)
(* app.js is a concatenation; the library appears twice and the second     *)
(* copy (lines 297-586) is the one in force, so the model follows it.      *)
(*                                                                         *)
(* JavaScript numbers are modelled as exact reals.  Every number the       *)
(* program computes is a finite sum of rational multiples of square roots  *)
(* of square-free integers, and is kept in that canonical form, so that    *)
(* equality and order of two scores are the exact ones.  IEEE-754          *)
(* rounding is not modelled.                                               *)
(***************************************************************************)
EXTENDS Integers, Sequences, FiniteSets

(***************************************************************************)
(* Exact arithmetic.                                                       *)
(*                                                                         *)
(* A number is a set of terms [rad, num, den], standing for the sum of     *)
(* (num/den) * sqrt(rad), with rad square-free and distinct among the      *)
(* terms, num # 0, den > 0 and gcd(num, den) = 1.  Square roots of         *)
(* distinct square-free integers are linearly independent over the         *)
(* rationals, so two numbers are equal iff their sets of terms are.        *)
(***************************************************************************)
Abs(n) == IF n < 0 THEN -n ELSE n

RECURSIVE GCD(_, _)
GCD(a, b) == IF b = 0 THEN Abs(a) ELSE GCD(b, a % b)

\* The term (p/q) * sqrt(d), in lowest terms with a positive denominator.
Term(d, p, q) ==
    LET g == GCD(Abs(p), Abs(q))
        s == IF q < 0 THEN -1 ELSE 1
    IN  [rad |-> d, num |-> s * (p \div g), den |-> s * (q \div g)]

\* The largest f with f*f dividing n (n > 0), so that n = f*f * square-free.
SquarePart(n) ==
    LET fs == {f \in 1..n : f * f <= n /\ n % (f * f) = 0}
    IN  CHOOSE f \in fs : \A g \in fs : g <= f

Zero == {}

Num(n) == IF n = 0 THEN Zero ELSE {Term(1, n, 1)}

Rads(x) == {t.rad : t \in x}

TermOf(x, d) == IF d \in Rads(x) THEN CHOOSE t \in x : t.rad = d ELSE Term(d, 0, 1)

NonZero(ts) == {t \in ts : t.num # 0}

Add(x, y) ==
    NonZero({ LET a == TermOf(x, d)
                  b == TermOf(y, d)
              IN  Term(d, a.num * b.den + b.num * a.den, a.den * b.den)
              : d \in Rads(x) \cup Rads(y) })

Neg(x) == {Term(t.rad, -t.num, t.den) : t \in x}

Sub(x, y) == Add(x, Neg(y))

\* The product of two terms: sqrt(d)*sqrt(e) = g * sqrt(d*e / g^2), g = gcd(d, e).
TermMul(a, b) ==
    LET g == GCD(a.rad, b.rad)
    IN  Term((a.rad \div g) * (b.rad \div g), a.num * b.num * g, a.den * b.den)

RECURSIVE SumTerms(_)
SumTerms(ts) ==
    IF ts = {} THEN Zero
    ELSE LET t == CHOOSE u \in ts : TRUE
         IN  Add(NonZero({t}), SumTerms(ts \ {t}))

Mul(x, y) == SumTerms({TermMul(a, b) : a \in x, b \in y})

IsRational(x) == Rads(x) \subseteq {1}

\* x / y for y a single term (every divisor the program uses is an integer
\* or the square root of a rational): 1 / ((p/q) sqrt(d)) = (q/(p*d)) sqrt(d).
Div(x, y) ==
    LET t == CHOOSE u \in y : Cardinality(y) = 1
    IN  Mul(x, {Term(t.rad, t.den, t.num * t.rad)})

\* Math.sqrt of a non-negative rational p/q: sqrt(p*q)/q.
Sqrt(x) ==
    IF x = Zero THEN Zero
    ELSE LET t == CHOOSE u \in x : IsRational(x) /\ u.num > 0
             f == SquarePart(t.num * t.den)
         IN  {Term((t.num * t.den) \div (f * f), f, t.den)}

RECURSIVE ISqrtIn(_, _, _)
ISqrtIn(n, lo, hi) ==
    IF lo = hi THEN lo
    ELSE LET mid == (lo + hi + 1) \div 2
         IN  IF mid * mid <= n THEN ISqrtIn(n, mid, hi) ELSE ISqrtIn(n, lo, mid - 1)

\* floor(sqrt(n)), 0 <= n < 2^31 (46340 = floor(sqrt(2^31 - 1))).
ISqrt(n) == ISqrtIn(n, 0, IF n < 46340 THEN n ELSE 46340)

RECURSIVE LCM(_)
LCM(ns) ==
    IF ns = {} THEN 1
    ELSE LET n == CHOOSE m \in ns : TRUE
             l == LCM(ns \ {n})
         IN  (n \div GCD(n, l)) * l

RECURSIVE SumOver(_, _)
SumOver(S, f) ==
    IF S = {} THEN 0
    ELSE LET e == CHOOSE u \in S : TRUE
         IN  f[e] + SumOver(S \ {e}, f)

\* Integer bounds, at scale s, of x * LCM(dens) * s: the sign of x is decided
\* once both bounds lie on one side of 0.
RECURSIVE SignAt(_, _)
SignAt(x, s) ==
    LET l      == LCM({t.den : t \in x})
        P(t)   == t.num * (l \div t.den)
        sq(t)  == P(t) * P(t) * t.rad * s * s
        r(t)   == ISqrt(sq(t))
        ex(t)  == r(t) * r(t) = sq(t)
        lo     == [t \in x |-> IF P(t) > 0 THEN r(t)
                               ELSE IF ex(t) THEN -r(t) ELSE -(r(t) + 1)]
        hi     == [t \in x |-> IF P(t) < 0 THEN -r(t)
                               ELSE IF ex(t) THEN r(t) ELSE r(t) + 1]
    IN  IF SumOver(x, lo) > 0 THEN 1
        ELSE IF SumOver(x, hi) < 0 THEN -1
        ELSE SignAt(x, 4 * s)

\* The sign of x: 0 exactly for the empty sum.
Sign(x) ==
    IF x = Zero THEN 0
    ELSE IF \A t \in x : t.num > 0 THEN 1
    ELSE IF \A t \in x : t.num < 0 THEN -1
    ELSE SignAt(x, 1)

\* The JavaScript comparison x > y.
Greater(x, y) == Sign(Sub(x, y)) = 1

(***************************************************************************)
(* Bounds of the model and constants of the program.                       *)
(***************************************************************************)
\* Contender objects the page may create (new Contender, line 47).
MaxContenders == 3
\* Battle objects the page may create (new Battle, line 64).
MaxBattles == 2
\* Windows the Contenders of the page may close, all together, under Spec.
MaxTicksPage == 4
\* Messages the handlers of the page's Contenders may take, all together.
MaxMsgsPage == 2
\* Windows each Contender of the one Battle of SpecBattle may close.
MaxTicks == 4
\* Messages the handler of each Contender of SpecBattle may take.
MaxMsgs == 2
\* Windows the single Contender of SpecSampler may close.
MaxTicksSampler == 23
\* Messages the handler of the single Contender of SpecSampler may take.
MaxMsgsSampler == 3
\* Largest value Date.now() returns (the page loads at time 1).
MaxTime == 2
\* Calls of Battle.start under SpecBattle.
MaxStarts == 2
\* Calls of startListening on the single Contender of SpecSampler.
MaxStartsSampler == 1

MAX_SCORES_TO_CONSIDER == 20

\* null: as an object reference the identity 0 (objects are numbered from 1),
\* as previousMessageTime the time 0 (Date.now() is at least 1; line 417 takes
\* null and 0 alike), as a timeout id or a callback the empty tuple, as a side
\* the string "null".
Null == 0
NoSide == "null"
None == <<>>
Sides == {"left", "right"}
ContenderIds == 1..MaxContenders
BattleIds == 1..MaxBattles

VARIABLES
    contender,    \* the Contender objects created so far, by identity 1, 2, ..
    battles,      \* the Battle objects created so far, by identity 1, 2, ..
    timers,       \* the ids of the pending window.setTimeout callbacks
    timeoutIds,   \* per Contender, how many ids window.setTimeout has handed it
    now,          \* the last value Date.now() returned
    battle,       \* app.js: var battle
    winningSide,  \* app.js: var winningSide
    contenders,   \* app.js: var contenders = {left, right}
    classList,    \* contenderElements[side].classList, 'active' and 'winning'
    innerHTML,    \* countContainerElements[side].innerHTML: the count shown
    handled,      \* history: per Contender, the messages its handler has taken
    starts,       \* history: per Contender, the calls of startListening so far
    lastCall,     \* history: per Contender, the last of start/stopListening called
    appended,     \* history: per Contender, every score handed to addNewScore
    unequal,      \* history: the Battles whose wrapper has seen unequal totalScores
    announced,    \* history: per Battle, the side its last onChangeWinner named
    log           \* history: the handler that ran last and the callbacks it made

vars == <<contender, battles, timers, timeoutIds, now, battle, winningSide,
          contenders, classList, innerHTML, handled, starts,
          lastCall, appended, unequal, announced, log>>

\* The history that only a closing window extends.
seen == <<appended, unequal, announced>>

Last(s) == s[Len(s)]

(***************************************************************************)
(* Math helpers (lines 328-354).                                           *)
(***************************************************************************)
RECURSIVE Reduce(_, _)
\* data.reduce(function(sum, value) { return sum + value; }, acc)
Reduce(data, acc) ==
    IF data = <<>> THEN acc ELSE Reduce(Tail(data), Add(acc, Head(data)))

_average(data) == Div(Reduce(data, Zero), Num(Len(data)))

\* diff * diff (line 346).
Square(diff) == Mul(diff, diff)

\* values.map(function(value) { ... return sqrDiff; }) (lines 344-348).
SquareDiffs(values, avg) == [i \in DOMAIN values |-> Square(Sub(values[i], avg))]

\* _standardDeviation with values.length - 1 for the divisor of line 350.
_standardDeviationOfSample(values) ==
    Sqrt(Div(Reduce(SquareDiffs(values, _average(values)), Zero),
             Num(Len(values) - 1)))

_standardDeviation(values) == Sqrt(_average(SquareDiffs(values, _average(values))))

\* this.windowCounts as JavaScript numbers.
Numbers(counts) == [i \in DOMAIN counts |-> Num(counts[i])]

(***************************************************************************)
(* Contender (lines 364-505).  countryCode, lang, name and wsUrl are       *)
(* labels no statement branches on and are left out; ws.onmessage is TRUE  *)
(* while the handler of startListening is attached; callbacks is the       *)
(* onNewCount it was started with: <<"wrapper", b>> for the function       *)
(* getOnNewCount of Battle b returned, <<"onNewCount">> for the page's     *)
(* onNewCount itself.                                                      *)
(***************************************************************************)
\* The constructor with the handler of lines 413-426 attached at line 372.
ContenderListening(side) ==
    [ side                |-> side,
      bucket              |-> <<>>,
      windowCounts        |-> <<>>,
      scores              |-> <<>>,
      totalScore          |-> Zero,
      previousMessageTime |-> Null,
      timeoutId           |-> None,
      onmessage           |-> TRUE,
      callbacks           |-> None ]

Contender(side) ==
    [ side                |-> side,
      bucket              |-> <<>>,
      windowCounts        |-> <<>>,
      scores              |-> <<>>,
      totalScore          |-> Zero,
      previousMessageTime |-> Null,
      timeoutId           |-> None,
      onmessage           |-> FALSE,
      callbacks           |-> None ]

\* this.scores.shift() while it is longer than MAX_SCORES_TO_CONSIDER.
RECURSIVE Shift(_)
Shift(scores) ==
    IF Len(scores) > MAX_SCORES_TO_CONSIDER THEN Shift(Tail(scores)) ELSE scores

\* Line 448, on the scores lines 442-445 leave.
SetScores(self, scores) ==
    [self EXCEPT !.scores = scores, !.totalScore = _average(scores)]

\* addNewScore with >= for the > of line 443.
addNewScoreEvictsAtTwenty(self, score) ==
    SetScores(self, IF Len(self.scores) + 1 >= MAX_SCORES_TO_CONSIDER
                    THEN Tail(Append(self.scores, score))
                    ELSE Append(self.scores, score))

\* addNewScore without the loop of lines 443-445.
addNewScoreKeepsAll(self, score) == SetScores(self, Append(self.scores, score))

addNewScore(self, score) == SetScores(self, Shift(Append(self.scores, score)))

\* Line 483 with the difference itself as the score of a flat dataset.
ScoreOfDifference(newCount, datasetAverage, datasetStdDev) ==
    IF datasetStdDev = Zero THEN Sub(Num(newCount), datasetAverage)
    ELSE Div(Sub(Num(newCount), datasetAverage), datasetStdDev)

\* Line 483.
ScoreOf(newCount, datasetAverage, datasetStdDev) ==
    IF datasetStdDev = Zero THEN Zero
    ELSE Div(Sub(Num(newCount), datasetAverage), datasetStdDev)

\* Lines 476-483: the score of newCount against the windowCounts before it.
Score(windowCounts, newCount) ==
    ScoreOf(newCount, _average(Numbers(windowCounts)),
            _standardDeviation(Numbers(windowCounts)))

\* The handler without line 419.
onmessageKeepsPrevious(self, time) ==
    IF self.previousMessageTime # Null
    THEN [self EXCEPT !.bucket = Append(@, time - self.previousMessageTime)]
    ELSE [self EXCEPT !.previousMessageTime = time]

\* The ws.onmessage handler of startListening (lines 413-426); time is Date.now().
onmessage(self, time) ==
    IF self.previousMessageTime # Null
    THEN [self EXCEPT !.previousMessageTime = time,
                      !.bucket = Append(@, time - self.previousMessageTime)]
    ELSE [self EXCEPT !.previousMessageTime = time]

\* closeWindow with > 0 for the > 1 of line 473.
closeWindowScoresFromOne(self) ==
    LET newCount == Len(self.bucket)
        emptied == [self EXCEPT !.bucket = <<>>]
    IN  [ IF Len(self.windowCounts) > 0
          THEN addNewScore(emptied, Score(self.windowCounts, newCount))
          ELSE emptied
          EXCEPT !.windowCounts = Append(@, newCount) ]

\* closeWindow with unshift for the push of line 488.
closeWindowUnshifts(self) ==
    LET newCount == Len(self.bucket)
        emptied == [self EXCEPT !.bucket = <<>>]
    IN  [ IF Len(self.windowCounts) > 1
          THEN addNewScore(emptied, Score(self.windowCounts, newCount))
          ELSE emptied
          EXCEPT !.windowCounts = <<newCount>> \o @ ]

\* closeWindow without line 467.
closeWindowKeepsBucket(self) ==
    LET newCount == Len(self.bucket)
    IN  [ IF Len(self.windowCounts) > 1
          THEN addNewScore(self, Score(self.windowCounts, newCount))
          ELSE self
          EXCEPT !.windowCounts = Append(@, newCount) ]

\* The body of the setTimeout callback up to its callback to the UI (lines 465-488).
closeWindow(self) ==
    LET deltas == self.bucket
        newCount == Len(deltas)
        emptied == [self EXCEPT !.bucket = <<>>]
    IN  [ IF Len(self.windowCounts) > 1
          THEN addNewScore(emptied, Score(self.windowCounts, newCount))
          ELSE emptied
          EXCEPT !.windowCounts = Append(@, newCount) ]

\* computeStatistics (lines 461-463, 496): window.setTimeout queues the callback
\* and hands out a fresh id.  A Contender's method yields the Contender and the
\* pending timers as it leaves them.
computeStatistics(self, pending, id) ==
    [self |-> [self EXCEPT !.timeoutId = id], timers |-> pending \cup {id}]

\* The setTimeout callback with line 494 moved into the if of line 473.
onTimeoutOnceScored(self, pending, id) ==
    IF Len(self.windowCounts) > 1
    THEN computeStatistics(closeWindow(self), pending, id)
    ELSE [self |-> closeWindow(self), timers |-> pending]

\* The setTimeout callback (lines 463-496) as the Contender sees it; its call of
\* this.callbacks.onNewCount, which reads no timer, is made by the action Tick.
onTimeout(self, pending, id) == computeStatistics(closeWindow(self), pending, id)

startListening(self, pending, callback, id) ==
    computeStatistics([self EXCEPT !.callbacks = callback, !.onmessage = TRUE],
                      pending, id)

\* stopListening without line 503.
stopListeningKeepsHandler(self, pending) ==
    [self |-> self, timers |-> pending \ {self.timeoutId}]

\* window.clearTimeout(id) drops the pending timer of that id, if there is one.
stopListening(self, pending) ==
    [self |-> [self EXCEPT !.onmessage = FALSE], timers |-> pending \ {self.timeoutId}]

(***************************************************************************)
(* The page's callbacks (lines 26-38), on the page state                   *)
(* pg = [winningSide, classList, innerHTML].                               *)
(***************************************************************************)
onChangeWinner(pg, winner) ==
    LET removed == IF pg.winningSide # NoSide
                   THEN [pg.classList EXCEPT ![pg.winningSide] = @ \ {"winning"}]
                   ELSE pg.classList
    IN  [pg EXCEPT !.classList = [removed EXCEPT ![winner.side] = @ \cup {"winning"}],
                   !.winningSide = winner.side]

onNewCount(pg, count, side) == [pg EXCEPT !.innerHTML[side] = <<count>>]

(***************************************************************************)
(* Battle (lines 516-568).  left, right and winner hold Contender          *)
(* identities; cs is the heap of Contenders the method reads.              *)
(***************************************************************************)
Battle(leftContender, rightContender) ==
    [winner |-> Null, left |-> leftContender, right |-> rightContender]

\* SetWinner without the comparison of line 544.
SetWinnerAlwaysAnnounces(self, cs, forwarded, count, side, oldWinnerSide, winner) ==
    [ battle |-> [self EXCEPT !.winner = winner],
      page   |-> onChangeWinner(forwarded, cs[winner]),
      calls  |-> <<[call |-> "onNewCount", count |-> count, side |-> side,
                    winner |-> self.winner],
                   [call |-> "onChangeWinner", side |-> cs[winner].side,
                    winner |-> winner]>> ]

\* SetWinner with this.left for the this.winner assigned at line 543.
SetWinnerOverwritesLeft(self, cs, forwarded, count, side, oldWinnerSide, winner) ==
    [ battle |-> [self EXCEPT !.left = winner],
      page   |-> IF cs[winner].side # oldWinnerSide
                 THEN onChangeWinner(forwarded, cs[winner]) ELSE forwarded,
      calls  |-> <<[call |-> "onNewCount", count |-> count, side |-> side,
                    winner |-> self.winner]>>
                 \o IF cs[winner].side # oldWinnerSide
                    THEN <<[call |-> "onChangeWinner", side |-> cs[winner].side,
                            winner |-> winner]>>
                    ELSE <<>> ]

\* SetWinner with the call of line 539 moved below line 547.
SetWinnerThenForward(self, cs, forwarded, count, side, oldWinnerSide, winner) ==
    [ battle |-> [self EXCEPT !.winner = winner],
      page   |-> IF cs[winner].side # oldWinnerSide
                 THEN onChangeWinner(forwarded, cs[winner]) ELSE forwarded,
      calls  |-> (IF cs[winner].side # oldWinnerSide
                  THEN <<[call |-> "onChangeWinner", side |-> cs[winner].side,
                          winner |-> winner]>>
                  ELSE <<>>)
                 \o <<[call |-> "onNewCount", count |-> count, side |-> side,
                       winner |-> winner]>> ]

\* Lines 543-547 with this.winner set to winner and its side compared with
\* oldWinnerSide; forwarded is the page as the call of line 539 left it.  calls
\* lists the UI callbacks made, in order, each with the winner the Battle held
\* when the call was made.
SetWinner(self, cs, forwarded, count, side, oldWinnerSide, winner) ==
    [ battle |-> [self EXCEPT !.winner = winner],
      page   |-> IF cs[winner].side # oldWinnerSide
                 THEN onChangeWinner(forwarded, cs[winner]) ELSE forwarded,
      calls  |-> <<[call |-> "onNewCount", count |-> count, side |-> side,
                    winner |-> self.winner]>>
                 \o IF cs[winner].side # oldWinnerSide
                    THEN <<[call |-> "onChangeWinner", side |-> cs[winner].side,
                            winner |-> winner]>>
                    ELSE <<>> ]

\* getOnNewCount with >= for the > of line 543.
getOnNewCountLeftOnTie(self, cs, pg, count, side) ==
    SetWinner(self, cs, onNewCount(pg, count, side), count, side,
              IF self.winner # Null THEN cs[self.winner].side ELSE "none",
              IF Greater(cs[self.right].totalScore, cs[self.left].totalScore)
              THEN self.right ELSE self.left)

\* getOnNewCount with the branches of line 543 exchanged.
getOnNewCountExchanged(self, cs, pg, count, side) ==
    SetWinner(self, cs, onNewCount(pg, count, side), count, side,
              IF self.winner # Null THEN cs[self.winner].side ELSE "none",
              IF Greater(cs[self.left].totalScore, cs[self.right].totalScore)
              THEN self.right ELSE self.left)

\* The function getOnNewCount returns (lines 537-548), called with (count, side).
getOnNewCount(self, cs, pg, count, side) ==
    SetWinner(self, cs, onNewCount(pg, count, side), count, side,
              IF self.winner # Null THEN cs[self.winner].side ELSE "none",
              IF Greater(cs[self.left].totalScore, cs[self.right].totalScore)
              THEN self.left ELSE self.right)

\* The heap a method works on: w = [contender, timers, timeoutIds].
World == [contender |-> contender, timers |-> timers, timeoutIds |-> timeoutIds]

FreshId(w, c) == <<c, w.timeoutIds[c] + 1>>

StartListening(w, c, callback) ==
    LET r == startListening(w.contender[c], w.timers, callback, FreshId(w, c))
    IN  [ contender  |-> [w.contender EXCEPT ![c] = r.self],
          timers     |-> r.timers,
          timeoutIds |-> [w.timeoutIds EXCEPT ![c] = @ + 1] ]

StopListening(w, c) ==
    LET r == stopListening(w.contender[c], w.timers)
    IN  [w EXCEPT !.contender[c] = r.self, !.timers = r.timers]

\* Battle.prototype.start (lines 565-568); b is the identity of self.
start(self, b, w) ==
    StartListening(StartListening(w, self.left, <<"wrapper", b>>),
                   self.right, <<"wrapper", b>>)

\* Battle.prototype.stop (lines 555-558).
stop(self, w) == StopListening(StopListening(w, self.left), self.right)

(***************************************************************************)
(* The program: the page after DOMContentLoaded, no language selected.     *)
(***************************************************************************)
Page == [winningSide |-> winningSide, classList |-> classList, innerHTML |-> innerHTML]

Init ==
    /\ contender = <<>>
    /\ battles = <<>>
    /\ timers = {}
    /\ timeoutIds = [c \in ContenderIds |-> 0]
    /\ now = 1
    /\ battle = Null
    /\ winningSide = NoSide
    /\ contenders = [side \in Sides |-> Null]
    /\ classList = [side \in Sides |-> {}]
    /\ innerHTML = [side \in Sides |-> None]
    /\ handled = [c \in ContenderIds |-> 0]
    /\ starts = [c \in ContenderIds |-> 0]
    /\ lastCall = [c \in ContenderIds |-> "none"]
    /\ appended = [c \in ContenderIds |-> <<>>]
    /\ unequal = {}
    /\ announced = [b \in BattleIds |-> NoSide]
    /\ log = [op |-> "load"]

\* The Contenders of Battle b.
Of(b) == {battles[b].left, battles[b].right}

\* A click on a select button of a side (lines 40-67).
onSelectLanguage(side) ==
    LET c == Len(contender) + 1
        b == Len(battles) + 1
        selected == [contenders EXCEPT ![side] = c]
        built == [World EXCEPT !.contender = Append(@, Contender(side))]
        new == Battle(selected.left, selected.right)
        w == start(new, b, built)
    IN  /\ c \in ContenderIds
        /\ contenders' = selected
        /\ classList' = [classList EXCEPT ![side] = @ \cup {"active"}]
        /\ IF selected.left # Null /\ selected.right # Null
           THEN /\ b \in BattleIds
                /\ battles' = Append(battles, new)
                /\ battle' = b
                /\ contender' = w.contender
                /\ timers' = w.timers
                /\ timeoutIds' = w.timeoutIds
                /\ starts' = [d \in ContenderIds |->
                                IF d \in {new.left, new.right}
                                THEN starts[d] + 1 ELSE starts[d]]
                /\ lastCall' = [d \in ContenderIds |->
                                IF d \in {new.left, new.right}
                                THEN "start" ELSE lastCall[d]]
                /\ log' = [op |-> "select", side |-> side, created |-> c,
                           started |-> {new.left, new.right},
                           restarted |-> {d \in {new.left, new.right} :
                                            lastCall[d] = "stop"}]
           ELSE /\ contender' = built.contender
                /\ log' = [op |-> "select", side |-> side, created |-> c,
                           started |-> {}, restarted |-> {}]
                /\ UNCHANGED <<battles, battle, timers, timeoutIds, starts, lastCall>>
        /\ UNCHANGED <<now, winningSide, innerHTML, handled, seen>>

\* A click on the deselect button of a side (lines 69-87).
onDeselectLanguage(side) ==
    /\ IF battle # Null
       THEN LET w == stop(battles[battle], World)
            IN  /\ contender' = w.contender
                /\ timers' = w.timers
                /\ lastCall' = [d \in ContenderIds |->
                                    IF d \in Of(battle) THEN "stop" ELSE lastCall[d]]
                /\ log' = [op |-> "deselect", side |-> side, stopped |-> Of(battle)]
       ELSE /\ log' = [op |-> "deselect", side |-> side, stopped |-> {}]
            /\ UNCHANGED <<contender, timers, lastCall>>
    /\ classList' = [classList EXCEPT ![side] = @ \ {"active", "winning"}]
    /\ innerHTML' = [s \in Sides |-> None]
    /\ contenders' = [contenders EXCEPT ![side] = Null]
    /\ UNCHANGED <<battles, timeoutIds, now, battle, winningSide, handled, starts, seen>>

\* The web socket of Contender c, open since its construction (line 372),
\* publishes a message; Date.now() is time if the handler runs.  With no
\* handler attached the message is dropped.
WsMessage(c, time) ==
    /\ c \in DOMAIN contender
    /\ IF contender[c].onmessage
       THEN /\ time >= now
            /\ contender' = [contender EXCEPT ![c] = onmessage(@, time)]
            /\ now' = time
            /\ handled' = [handled EXCEPT ![c] = @ + 1]
            /\ log' = [op |-> "message", self |-> c, handled |-> TRUE]
       ELSE /\ time = now
            /\ log' = [op |-> "message", self |-> c, handled |-> FALSE]
            /\ UNCHANGED <<contender, now, handled>>
    /\ UNCHANGED <<battles, timers, timeoutIds, battle, winningSide, contenders,
                   classList, innerHTML, starts, lastCall, seen>>

\* The Battles, the page and the callbacks made, after the wrapper of Battle b
\* has returned out.
Wrapped(b, out) ==
    [ battles |-> [battles EXCEPT ![b] = out.battle],
      page    |-> out.page,
      calls   |-> out.calls ]

\* What this.callbacks.onNewCount(newCount, this.side) of line 491, called by
\* Contender self, does to the Battles and the page; cs is the heap then.
Callback(self, cs, newCount) ==
    IF self.callbacks = <<"onNewCount">>
    THEN [ battles |-> battles,
           page    |-> onNewCount(Page, newCount, self.side),
           calls   |-> <<[call |-> "onNewCount", count |-> newCount,
                          side |-> self.side, winner |-> Null]>> ]
    ELSE Wrapped(self.callbacks[2],
                 getOnNewCount(battles[self.callbacks[2]], cs, Page, newCount,
                               self.side))

\* The state after the callback of timer id has run: r is what it made of its
\* Contender c and of the timers, out what its call of onNewCount did.
Fired(id, c, r, out) ==
    /\ contender' = [contender EXCEPT ![c] = r.self]
    /\ timers' = r.timers
    /\ timeoutIds' = [timeoutIds EXCEPT ![c] = @ + 1]
    /\ battles' = out.battles
    /\ winningSide' = out.page.winningSide
    /\ classList' = out.page.classList
    /\ innerHTML' = out.page.innerHTML
    /\ log' = [op |-> "tick", self |-> c, id |-> id, calls |-> out.calls,
               callback |-> r.self.callbacks,
               oldWinner |-> IF r.self.callbacks = <<"onNewCount">> THEN Null
                             ELSE battles[r.self.callbacks[2]].winner]
    /\ appended' = IF Len(contender[c].windowCounts) > 1
                   THEN [appended EXCEPT ![c] =
                            Append(@, Score(contender[c].windowCounts,
                                            Len(contender[c].bucket)))]
                   ELSE appended
    /\ unequal' = unequal \cup
                    {b \in DOMAIN battles :
                        /\ r.self.callbacks = <<"wrapper", b>>
                        /\ contender'[battles[b].left].totalScore
                             # contender'[battles[b].right].totalScore}
    /\ announced' = [b \in BattleIds |->
                        IF /\ r.self.callbacks = <<"wrapper", b>>
                           /\ Last(out.calls).call = "onChangeWinner"
                        THEN Last(out.calls).side ELSE announced[b]]
    /\ UNCHANGED <<now, battle, contenders, handled, starts, lastCall>>

Closed(id, c, r) ==
    Fired(id, c, r,
          Callback(r.self, [contender EXCEPT ![c] = r.self], Last(r.self.windowCounts)))

\* The pending timer id fires: the callback of computeStatistics (lines 463-496).
Tick(id) ==
    /\ id \in timers
    /\ Closed(id, id[1],
              onTimeout(contender[id[1]], timers \ {id}, FreshId(World, id[1])))

Times == 1..MaxTime

RECURSIVE Total(_)
Total(ns) == IF ns = <<>> THEN 0 ELSE Head(ns) + Total(Tail(ns))

\* The windows closed and the messages taken so far, over all Contenders.
WindowsClosed == Total([c \in DOMAIN contender |-> Len(contender[c].windowCounts)])
MessagesTaken == Total([c \in DOMAIN contender |-> handled[c]])

\* A message is within bound if it is dropped or the handlers may take one more.
PageMessage(c, time) ==
    /\ c \in DOMAIN contender
    /\ contender[c].onmessage => MessagesTaken < MaxMsgsPage
    /\ WsMessage(c, time)

PageTick(id) == WindowsClosed < MaxTicksPage /\ Tick(id)

Next ==
    \/ \E side \in Sides : onSelectLanguage(side)
    \/ \E side \in Sides : onDeselectLanguage(side)
    \/ \E c \in ContenderIds, time \in Times : PageMessage(c, time)
    \/ \E id \in timers : PageTick(id)

Spec == Init /\ [][Next]_vars

(***************************************************************************)
(* The library on its own: one Battle built from two new Contenders with   *)
(* the page's callbacks, and a client that calls start and stop on it in   *)
(* any order.                                                              *)
(***************************************************************************)
InitBattle ==
    /\ contender = <<Contender("left"), Contender("right")>>
    /\ battles = <<Battle(1, 2)>>
    /\ timers = {}
    /\ timeoutIds = [c \in ContenderIds |-> 0]
    /\ now = 1
    /\ battle = 1
    /\ winningSide = NoSide
    /\ contenders = [left |-> 1, right |-> 2]
    /\ classList = [side \in Sides |-> {"active"}]
    /\ innerHTML = [side \in Sides |-> None]
    /\ handled = [c \in ContenderIds |-> 0]
    /\ starts = [c \in ContenderIds |-> 0]
    /\ lastCall = [c \in ContenderIds |-> "none"]
    /\ appended = [c \in ContenderIds |-> <<>>]
    /\ unequal = {}
    /\ announced = [b \in BattleIds |-> NoSide]
    /\ log = [op |-> "load"]

\* The client calls battle.start().
BattleStart ==
    LET w == start(battles[battle], battle, World)
    IN  /\ \A c \in Of(battle) : starts[c] < MaxStarts
        /\ contender' = w.contender
        /\ timers' = w.timers
        /\ timeoutIds' = w.timeoutIds
        /\ starts' = [c \in ContenderIds |->
                        IF c \in Of(battle) THEN starts[c] + 1 ELSE starts[c]]
        /\ lastCall' = [c \in ContenderIds |->
                        IF c \in Of(battle) THEN "start" ELSE lastCall[c]]
        /\ log' = [op |-> "start", started |-> Of(battle),
                   restarted |-> {c \in Of(battle) : lastCall[c] = "stop"}]
        /\ UNCHANGED <<battles, now, battle, winningSide, contenders, classList,
                       innerHTML, handled, seen>>

\* The client calls battle.stop().
BattleStop ==
    LET w == stop(battles[battle], World)
    IN  /\ contender' = w.contender
        /\ timers' = w.timers
        /\ lastCall' = [c \in ContenderIds |->
                        IF c \in Of(battle) THEN "stop" ELSE lastCall[c]]
        /\ log' = [op |-> "stop", stopped |-> Of(battle)]
        /\ UNCHANGED <<battles, timeoutIds, now, battle, winningSide, contenders,
                       classList, innerHTML, handled, starts, seen>>

BattleMessage(c, time) ==
    /\ c \in DOMAIN contender
    /\ contender[c].onmessage => handled[c] < MaxMsgs
    /\ WsMessage(c, time)

BattleTick(id) == Len(contender[id[1]].windowCounts) < MaxTicks /\ Tick(id)

NextBattle ==
    \/ BattleStart
    \/ BattleStop
    \/ \E c \in ContenderIds, time \in Times : BattleMessage(c, time)
    \/ \E id \in timers : BattleTick(id)

SpecBattle == InitBattle /\ [][NextBattle]_vars

(***************************************************************************)
(* One Contender on its own, started by a client with the page's           *)
(* onNewCount as its callback, over enough windows to fill this.scores.    *)
(***************************************************************************)
InitSampler ==
    /\ contender = <<Contender("left")>>
    /\ battles = <<>>
    /\ timers = {}
    /\ timeoutIds = [c \in ContenderIds |-> 0]
    /\ now = 1
    /\ battle = Null
    /\ winningSide = NoSide
    /\ contenders = [left |-> 1, right |-> Null]
    /\ classList = [side \in Sides |-> IF side = "left" THEN {"active"} ELSE {}]
    /\ innerHTML = [side \in Sides |-> None]
    /\ handled = [c \in ContenderIds |-> 0]
    /\ starts = [c \in ContenderIds |-> 0]
    /\ lastCall = [c \in ContenderIds |-> "none"]
    /\ appended = [c \in ContenderIds |-> <<>>]
    /\ unequal = {}
    /\ announced = [b \in BattleIds |-> NoSide]
    /\ log = [op |-> "load"]

\* The client calls contender.startListening(onNewCount).
SamplerStart(c) ==
    LET w == StartListening(World, c, <<"onNewCount">>)
    IN  /\ c \in DOMAIN contender
        /\ starts[c] < MaxStartsSampler
        /\ contender' = w.contender
        /\ timers' = w.timers
        /\ timeoutIds' = w.timeoutIds
        /\ starts' = [starts EXCEPT ![c] = @ + 1]
        /\ lastCall' = [lastCall EXCEPT ![c] = "start"]
        /\ log' = [op |-> "start", started |-> {c},
                   restarted |-> {d \in {c} : lastCall[d] = "stop"}]
        /\ UNCHANGED <<battles, now, battle, winningSide, contenders, classList,
                       innerHTML, handled, seen>>

\* The client calls contender.stopListening().
SamplerStop(c) ==
    LET w == StopListening(World, c)
    IN  /\ c \in DOMAIN contender
        /\ contender' = w.contender
        /\ timers' = w.timers
        /\ lastCall' = [lastCall EXCEPT ![c] = "stop"]
        /\ log' = [op |-> "stop", stopped |-> {c}]
        /\ UNCHANGED <<battles, timeoutIds, now, battle, winningSide, contenders,
                       classList, innerHTML, handled, starts, seen>>

SamplerMessage(c, time) ==
    /\ c \in DOMAIN contender
    /\ contender[c].onmessage => handled[c] < MaxMsgsSampler
    /\ WsMessage(c, time)

SamplerTick(id) == Len(contender[id[1]].windowCounts) < MaxTicksSampler /\ Tick(id)

NextSampler ==
    \/ \E c \in ContenderIds : SamplerStart(c)
    \/ \E c \in ContenderIds : SamplerStop(c)
    \/ \E c \in ContenderIds, time \in Times : SamplerMessage(c, time)
    \/ \E id \in timers : SamplerTick(id)

SpecSampler == InitSampler /\ [][NextSampler]_vars

\* A pending timer of Contender c fires, as the timers show it: its id leaves
\* them and the id of the setTimeout of line 463 joins them.  Of the steps of
\* NextSampler only SamplerTick(id) does that to timers.
TimerFires(c) ==
    \E id \in timers :
        /\ id[1] = c
        /\ Len(contender[c].windowCounts) < MaxTicksSampler
        /\ timers' = (timers \ {id}) \cup {FreshId(World, c)}

\* The browser runs every pending setTimeout callback in the end: the timers of
\* each Contender are weakly fair.
FairSampler ==
    SpecSampler /\ \A c \in ContenderIds : WF_timers(TimerFires(c))

(***************************************************************************)
(* Properties.  A state with log.op = "tick" is the state a closing window *)
(* left: its Contender is log.self, its callbacks are log.calls, and a     *)
(* wrapper it called belongs to Battle log.callback[2], whose winner was   *)
(* log.oldWinner when the window closed.                                   *)
(***************************************************************************)
WrapperRan == log.op = "tick" /\ log.callback # <<"onNewCount">>

LeftTotal(b) == contender[battles[b].left].totalScore
RightTotal(b) == contender[battles[b].right].totalScore

\* The side whose totalScore is strictly higher, for unequal totalScores.
Higher(b) == IF Greater(LeftTotal(b), RightTotal(b)) THEN "left" ELSE "right"

ChangeAnnounced == Last(log.calls).call = "onChangeWinner"

\* C1: the wrapper calls onChangeWinner exactly when the side with the strictly
\* higher totalScore differs from the side of the winner it held before, and
\* with equal totalScores it leaves the winner as it was and calls nothing.
C1_ChangeIffHigherSideDiffers ==
    WrapperRan =>
        LET b == log.callback[2]
            previous == IF log.oldWinner = Null THEN NoSide
                        ELSE contender[log.oldWinner].side
        IN  IF LeftTotal(b) = RightTotal(b)
            THEN battles[b].winner = log.oldWinner /\ ~ChangeAnnounced
            ELSE ChangeAnnounced <=> Higher(b) # previous

\* C2: while the totalScores were equal at every call of a Battle's wrapper so
\* far, its winner is null and onChangeWinner has not been called for it.
C2_NoWinnerWhileEqual ==
    \A b \in DOMAIN battles :
        b \notin unequal => battles[b].winner = Null /\ announced[b] = NoSide

\* C3: whenever the totalScores of a Battle's Contenders differ, its winner is
\* the Contender with the strictly larger one, whichever of the two closed its
\* window last and in whatever order their windows closed.
C3_WinnerNeverStale ==
    \A b \in DOMAIN battles :
        LeftTotal(b) # RightTotal(b) =>
            /\ battles[b].winner # Null
            /\ contender[battles[b].winner].side = Higher(b)

\* The right Contender closed a window and left the left one the winner.
C3_Witness ==
    /\ WrapperRan
    /\ log.self = battles[log.callback[2]].right
    /\ LeftTotal(log.callback[2]) # RightTotal(log.callback[2])
    /\ battles[log.callback[2]].winner = battles[log.callback[2]].left
    /\ log.oldWinner = battles[log.callback[2]].right

\* C4: no window of a Contender closes, and so no callback is made, while
\* stopListening is the last of startListening and stopListening called on it.
C4_NoTickAfterStop == log.op = "tick" => lastCall[log.self] # "stop"

\* The most recent min(20, n) of the n elements of all.
MostRecent(all) ==
    SubSeq(all, IF Len(all) > 20 THEN Len(all) - 19 ELSE 1, Len(all))

\* C5: scores never holds more than 20 entries, it is the most recent
\* min(20, n) of the n scores appended so far, in order, and totalScore is
\* their arithmetic mean, 0 before the first score.
C5_ScoresAreMostRecentTwenty ==
    \A c \in DOMAIN contender :
        /\ Len(contender[c].scores) <= 20
        /\ contender[c].scores = MostRecent(appended[c])
        /\ IF appended[c] = <<>>
           THEN contender[c].totalScore = Zero
           ELSE Mul(contender[c].totalScore, Num(Len(contender[c].scores)))
                    = Reduce(MostRecent(appended[c]), Zero)

\* The twenty-first score has been appended and the first, which differed from
\* the second, has left scores.
C5_Witness ==
    \E c \in DOMAIN contender :
        /\ Len(appended[c]) = 21
        /\ appended[c][1] # appended[c][2]
        /\ contender[c].scores[1] = appended[c][2]
        /\ contender[c].totalScore # Zero

\* The windowCounts the window that closed last was scored against.
Before == SubSeq(contender[log.self].windowCounts, 1,
                 Len(contender[log.self].windowCounts) - 1)

Flat(counts) == Len(counts) > 1 /\ \A i \in DOMAIN counts : counts[i] = counts[1]

\* C6: a window that closes on two or more windowCounts that are all equal
\* appends the score 0 whatever its own count, as 16 does on [10, 10, 10].
C6_FlatHistoryScoresZero ==
    /\ Score(<<10, 10, 10>>, 16) = Zero
    /\ (log.op = "tick" /\ Flat(Before)) =>
            /\ Last(contender[log.self].scores) = Zero
            /\ Last(appended[log.self]) = Zero

\* A window closed on equal windowCounts with a count that differs from them.
C6_Witness ==
    /\ log.op = "tick"
    /\ Flat(Before)
    /\ Last(contender[log.self].windowCounts) # Before[1]

\* C7: a closing window makes exactly one call of onNewCount, with the count it
\* has just appended to windowCounts and the side of its Contender, and makes
\* it first: while the Battle still holds the winner of before, and before any
\* call of onChangeWinner.
C7_CountForwardedFirst ==
    log.op = "tick" =>
        /\ log.calls # <<>>
        /\ log.calls[1].call = "onNewCount"
        /\ log.calls[1].count = Last(contender[log.self].windowCounts)
        /\ log.calls[1].count \in Nat
        /\ log.calls[1].side = contender[log.self].side
        /\ log.calls[1].winner = log.oldWinner
        /\ \A i \in 2..Len(log.calls) : log.calls[i].call = "onChangeWinner"
        /\ innerHTML[contender[log.self].side] = <<log.calls[1].count>>

\* A window closed and took the lead from the winner of before.
C7_Witness ==
    /\ WrapperRan
    /\ Len(log.calls) = 2
    /\ log.oldWinner # Null
    /\ log.calls[2].winner # log.oldWinner

\* C8: every closing window of a listening Contender leaves a timer pending for
\* the next, and a Contender that has been started goes on closing windows
\* until it is stopped (here: or has closed MaxTicksSampler of them).
C8_TicksRecur ==
    /\ [](log.op = "tick" /\ lastCall[log.self] = "start"
            => contender[log.self].timeoutId \in timers)
    /\ lastCall[1] = "start"
           ~> (\/ lastCall[1] = "stop"
               \/ Len(contender[1].windowCounts) = MaxTicksSampler)

\* A Contender never stopped has closed every window the bound allows.
C8_Witness ==
    /\ lastCall[1] = "start"
    /\ log.op = "tick"
    /\ Len(contender[1].windowCounts) = MaxTicksSampler
    /\ contender[1].timeoutId \in timers

\* C9: a message published for a Contender on which stopListening was called
\* last changes nothing: not its bucket nor its previousMessageTime, no Battle,
\* no timer, and nothing the callbacks write.
C9_MessageAfterStopDropped ==
    [][(log'.op = "message" /\ lastCall[log'.self] = "stop") =>
            /\ ~log'.handled
            /\ contender' = contender
            /\ battles' = battles
            /\ timers' = timers
            /\ Page' = Page]_vars

\* A message was published for a stopped Contender.
C9_Witness ==
    /\ log.op = "message"
    /\ ~log.handled
    /\ lastCall[log.self] = "stop"
    /\ contender[log.self].previousMessageTime # Null

\* C10: whatever is selected and deselected, no Battle is started on a
\* Contender on which stopListening has been called.
C10_NoContenderRestarted == log.op = "select" => log.restarted = {}

C12_MessagesAccounted ==
    \A c \in DOMAIN contender :
        /\ Total(contender[c].windowCounts) + Len(contender[c].bucket)
              = IF handled[c] = 0 THEN 0 ELSE handled[c] - 1
        /\ (handled[c] = 1 /\ contender[c].windowCounts # <<>>) =>
              Total(contender[c].windowCounts) = 0

\* The first window closed on the first message alone, a later one on a
\* second, and a third message waits in the bucket.
C12_Witness ==
    /\ handled[1] = 3
    /\ Len(contender[1].windowCounts) > 1
    /\ contender[1].windowCounts[1] = 0
    /\ Total(contender[1].windowCounts) = 1
    /\ Len(contender[1].bucket) = 1

\* The pending timers of Contender c.
TimersOf(c) == {id \in timers : id[1] = c}

\* C13: no Contender ever has more than one pending timer, whatever calls of
\* startListening and stopListening, windows and messages came before.
C13_OneTimerPerContender ==
    \A c \in DOMAIN contender : Cardinality(TimersOf(c)) <= 1

\* C14: a closing window appends its count, the number of deltas in the
\* bucket, to the end of the windowCounts of its Contender and leaves the
\* entries before it as they were, whether or not it computed a score; no
\* other step changes the windowCounts of any Contender.
C14_WindowCountsAppendOnly ==
    [][\A c \in DOMAIN contender :
          IF log'.op = "tick" /\ log'.self = c
          THEN contender'[c].windowCounts
                  = Append(contender[c].windowCounts, Len(contender[c].bucket))
          ELSE contender'[c].windowCounts = contender[c].windowCounts]_vars

\* A third window closed, with a score, on a bucket holding one delta.
C14_Witness ==
    /\ log.op = "tick"
    /\ Len(contender[log.self].windowCounts) = 3
    /\ Last(contender[log.self].windowCounts) = 1
    /\ contender[log.self].scores # <<>>

\* C15: a window that closes on fewer than two windowCounts leaves scores and
\* totalScore as they were, appends its count, calls onNewCount with it and
\* leaves a new timer pending; so a Contender that has closed at most two
\* windows has no score and the totalScore 0.
C15_NoScoreBeforeTwoWindows ==
    /\ [](\A c \in DOMAIN contender :
             Len(contender[c].windowCounts) <= 2 =>
                 contender[c].scores = <<>> /\ contender[c].totalScore = Zero)
    /\ [][(log'.op = "tick" /\ Len(contender[log'.self].windowCounts) < 2) =>
             /\ contender'[log'.self].scores = contender[log'.self].scores
             /\ contender'[log'.self].totalScore = contender[log'.self].totalScore
             /\ contender'[log'.self].windowCounts
                   = Append(contender[log'.self].windowCounts,
                            Len(contender[log'.self].bucket))
             /\ log'.calls[1].call = "onNewCount"
             /\ log'.calls[1].count = Len(contender[log'.self].bucket)
             /\ contender'[log'.self].timeoutId \in timers' \ timers]_vars

\* A second window closed, on a bucket holding one delta, and computed no score.
C15_Witness ==
    /\ log.op = "tick"
    /\ Len(contender[log.self].windowCounts) = 2
    /\ Last(contender[log.self].windowCounts) = 1
    /\ contender[log.self].scores = <<>>
    /\ contender[log.self].timeoutId \in timers

RECURSIVE SumOfSquares(_)
SumOfSquares(ns) ==
    IF ns = <<>> THEN 0 ELSE Head(ns) * Head(ns) + SumOfSquares(Tail(ns))

\* N * x - sum(H): the sign of x - mean(H), and the numerator of the score.
Excess(H, x) == Len(H) * x - Total(H)

\* N * sum(H^2) - sum(H)^2: N^2 times the population variance of H.
Spread(H) == Len(H) * SumOfSquares(H) - Total(H) * Total(H)

\* z = (x - mean(H)) / populationStdDev(H), stated in integers:
\* z^2 * Spread(H) = Excess(H, x)^2 and z has the sign of Excess(H, x).
StandardScore(z, H, x) ==
    /\ Mul(Mul(z, z), Num(Spread(H))) = Num(Excess(H, x) * Excess(H, x))
    /\ Sign(z) = (IF Excess(H, x) > 0 THEN 1 ELSE IF Excess(H, x) < 0 THEN -1 ELSE 0)

\* C16: a window that closes on two or more windowCounts H that are not all
\* equal appends to scores the count's distance from the mean of H in
\* population standard deviations of H, H being the windowCounts before the
\* count is appended; on H = [4, 6, 5, 5] the count 9 has mean 5, variance
\* 1/2 and a positive score whose square is 32.
C16_ScoreIsStandardScore ==
    /\ _average(Numbers(<<4, 6, 5, 5>>)) = Num(5)
    /\ Square(_standardDeviation(Numbers(<<4, 6, 5, 5>>))) = Div(Num(1), Num(2))
    /\ Square(Score(<<4, 6, 5, 5>>, 9)) = Num(32)
    /\ Sign(Score(<<4, 6, 5, 5>>, 9)) = 1
    /\ (log.op = "tick" /\ Len(Before) > 1 /\ ~Flat(Before)) =>
            StandardScore(Last(contender[log.self].scores), Before,
                          Last(contender[log.self].windowCounts))

\* A window closed above the mean of three windowCounts that are not all equal.
C16_Witness ==
    /\ log.op = "tick"
    /\ Len(Before) = 3
    /\ ~Flat(Before)
    /\ Excess(Before, Last(contender[log.self].windowCounts)) > 0
    /\ Sign(Last(contender[log.self].scores)) = 1

\* C17: a message the handler of a Contender takes appends exactly one delta,
\* Date.now() less previousMessageTime, to its bucket if previousMessageTime
\* is set and leaves the bucket as it was if not; either way
\* previousMessageTime becomes Date.now(), and windowCounts, scores and
\* totalScore stay as they were.
C17_MessageRecordsOneDelta ==
    [][(log'.op = "message" /\ log'.handled) =>
          /\ contender'[log'.self].bucket
                = IF contender[log'.self].previousMessageTime # Null
                  THEN Append(contender[log'.self].bucket,
                              now' - contender[log'.self].previousMessageTime)
                  ELSE contender[log'.self].bucket
          /\ contender'[log'.self].previousMessageTime = now'
          /\ contender'[log'.self].windowCounts = contender[log'.self].windowCounts
          /\ contender'[log'.self].scores = contender[log'.self].scores
          /\ contender'[log'.self].totalScore = contender[log'.self].totalScore]_vars

\* A second message arrived one unit of time after the first.
C17_Witness ==
    /\ log.op = "message"
    /\ log.handled
    /\ contender[log.self].bucket = <<1>>
    /\ contender[log.self].previousMessageTime = now
    /\ handled[log.self] = 2

\* C18: a closing window or a message of one Contender leaves every other
\* Contender as it was, and its own side, handler and callback; the wrapper a
\* closing window calls changes nothing of any Battle but the winner of its
\* own, and leaves the totalScore of the Contender the mean of its scores.
C18_OnlyOwnStateChanges ==
    [][log'.op \in {"tick", "message"} =>
          /\ \A d \in DOMAIN contender :
                d # log'.self => contender'[d] = contender[d]
          /\ contender'[log'.self].side = contender[log'.self].side
          /\ contender'[log'.self].onmessage = contender[log'.self].onmessage
          /\ contender'[log'.self].callbacks = contender[log'.self].callbacks
          /\ contender'[log'.self].totalScore
                = IF contender'[log'.self].scores = <<>> THEN Zero
                  ELSE _average(contender'[log'.self].scores)
          /\ \A b \in DOMAIN battles :
                /\ battles'[b].left = battles[b].left
                /\ battles'[b].right = battles[b].right
                /\ battles'[b].winner # battles[b].winner =>
                      log'.op = "tick" /\ log'.callback = <<"wrapper", b>>]_vars

\* A window closed with a score, and its wrapper changed the winner.
C18_Witness ==
    /\ WrapperRan
    /\ contender[log.self].totalScore # Zero
    /\ Len(log.calls) = 2
    /\ log.oldWinner # Null
    /\ \E d \in DOMAIN contender : d # log.self /\ contender[d].windowCounts # <<>>

\* C19: a Contender on which stopListening was called and startListening
\* never has the bucket, windowCounts, scores and totalScore it was
\* constructed with, no handler and no pending timer.
C19_StopBeforeStartIsSafe ==
    \A c \in DOMAIN contender :
        (starts[c] = 0 /\ lastCall[c] = "stop") =>
            /\ contender[c].bucket = <<>>
            /\ contender[c].windowCounts = <<>>
            /\ contender[c].scores = <<>>
            /\ contender[c].totalScore = Zero
            /\ ~contender[c].onmessage
            /\ TimersOf(c) = {}

\* stopListening has just been called on a Contender never started.
C19_Witness ==
    /\ log.op = "stop"
    /\ 1 \in log.stopped
    /\ starts[1] = 0
    /\ lastCall[1] = "stop"

\* C20: the winner of a Battle is null or one of its two Contenders, is never
\* null again once it is set, and a call of onChangeWinner by its wrapper
\* names another side than its call before.
C20_WinnerStaysSetAndAlternates ==
    /\ [](\A b \in DOMAIN battles :
             battles[b].winner \in {Null, battles[b].left, battles[b].right})
    /\ [][\A b \in DOMAIN battles :
             /\ battles[b].winner # Null => battles'[b].winner # Null
             /\ (/\ log'.op = "tick"
                 /\ log'.callback = <<"wrapper", b>>
                 /\ Last(log'.calls).call = "onChangeWinner") =>
                    /\ announced'[b] = Last(log'.calls).side
                    /\ announced'[b] # announced[b]]_vars

\* The wrapper announced the right side, then the left, then the right again.
C20_Witness ==
    /\ WrapperRan
    /\ ChangeAnnounced
    /\ log.oldWinner = battles[log.callback[2]].left
    /\ announced[log.callback[2]] = "right"
    /\ battles[log.callback[2]].winner = battles[log.callback[2]].right

\* min(20, max(0, n - 2)).
ScoresAfter(n) == IF n < 2 THEN 0 ELSE IF n - 2 > 20 THEN 20 ELSE n - 2

\* C21: a Contender started once holds min(20, max(0, n - 2)) scores after
\* closing n windows: its third window appends the first score, and every
\* later window appends exactly one.
C21_ScoresLength ==
    \A c \in DOMAIN contender :
        starts[c] = 1 =>
            /\ Len(contender[c].scores) = ScoresAfter(Len(contender[c].windowCounts))
            /\ Len(appended[c])
                  = IF Len(contender[c].windowCounts) < 2 THEN 0
                    ELSE Len(contender[c].windowCounts) - 2

\* A Contender started once has closed 23 windows and holds 20 of its 21 scores.
C21_Witness ==
    /\ starts[1] = 1
    /\ Len(contender[1].windowCounts) = 23
    /\ Len(appended[1]) = 21
    /\ Len(contender[1].scores) = 20

\* C22: when the deselect handler has run, no Contender created so far has a
\* pending timer or an attached message handler.
C22_NothingRunsAfterDeselect ==
    log.op = "deselect" =>
        \A c \in DOMAIN contender :
            TimersOf(c) = {} /\ ~contender[c].onmessage

\* The sides that carry the 'winning' marker.
Marked == {side \in Sides : "winning" \in classList[side]}

\* The Battle of the page is running: both sides are selected, so that it was
\* built from them and started by the latest click.
Running == contenders.left # Null /\ contenders.right # Null

\* C23: at most one side carries the 'winning' marker, and while the running
\* Battle has a leader the marked side is the side of that leader.
C23_MarkerFollowsLeader ==
    /\ Cardinality(Marked) <= 1
    /\ (Running /\ battles[battle].winner # Null)
          => Marked = {contender[battles[battle].winner].side}

=============================================================================
